---- MODULE Spec2Model ----
(***************************************************************************)
(* StudentWaveNet (wavenet_vocoder/student_wavenet.py): construction, the  *)
(* batch flow path (forward), the streaming path (incremental_forward),    *)
(* clear_buffer and make_generation_fast_.                                 *)
(*                                                                         *)
(* Tensors are modelled by one batch element.  A tensor of the batch path  *)
(* is one of its elements (every operation of forward is elementwise); a   *)
(* tensor of the streaming path is a matrix, a sequence of rows.           *)
(* The collaborators (Conv1d1x1, ResidualConv1dGLU, Embedding, the mixture *)
(* sampler, torch's weight-norm utilities) are outside the file: what they *)
(* return is drawn from small sets, what they keep (a history buffer, a    *)
(* weight-norm hook) is modelled from their interface.                     *)
(***************************************************************************)
EXTENDS Integers, Sequences, FiniteSets, TLC

\* ---------------------------------------------------------------- bounds
MaxLayers == 3
MaxStacks == 2
MaxInitFlows == 1
MaxFlows == 3
MaxT == 3
MaxRef == 2

\* ------------------------------------------------------ program constants
KernelSize == 3
OutChannels == 2

None == "None"

FlowLayerCounts == {1, 2}
Shifts == {-1, 1}
Scales == {1, 2}
Noise == {-1, 2}

\* ---------------------------------------------------------------- helpers
RECURSIVE Pow2(_)
Pow2(n) == IF n = 0 THEN 1 ELSE 2 * Pow2(n - 1)

Max(a, b) == IF a > b THEN a ELSE b

SeqsUpTo(S, n) == UNION {[1..k -> S] : k \in 0..n}

\* ----------------------------------------------------------- construction
\* The arguments of __init__ the model varies; the others keep their defaults.
CfgSpace(sizes, scalars) ==
    [layers : 1..MaxLayers,
     stacks : 1..MaxStacks,
     iaf_layer_size : sizes,
     gin_channels : {-1, 1},
     n_speakers : {0, 2},            \* 0 stands for n_speakers=None
     weight_normalization : BOOLEAN,
     scalar_input : scalars]

Cfgs == CfgSpace(SeqsUpTo(FlowLayerCounts, MaxInitFlows), {TRUE})

CtorErrorSpeakersUnchecked(cfg) ==
    IF cfg.layers % cfg.stacks # 0 THEN "AssertionError" ELSE None

\* The first assertion that fails in __init__, or None.
CtorError(cfg) ==
    IF cfg.layers % cfg.stacks # 0 THEN "AssertionError"
    ELSE IF cfg.gin_channels > 0 /\ cfg.n_speakers = 0 THEN "AssertionError"
    ELSE None

\* A weight-normalized module holds g and v, and its weight is g * v / ||v||;
\* a plain module holds its weight.
Norm(v) == CHOOSE n \in 0..10 : n * n = v[1] * v[1] + v[2] * v[2]
Folded(g, v) == <<(g * v[1]) \div Norm(v), (g * v[2]) \div Norm(v)>>

ConvModule(kind, wn, window) ==
    [kind |-> kind, wn |-> wn,
     g |-> IF wn THEN 10 ELSE 0,
     v |-> IF wn THEN <<3, 4>> ELSE <<0, 0>>,
     weight |-> IF wn THEN <<0, 0>> ELSE <<6, 8>>,
     window |-> window, buffer |-> 0]

ReLUModule ==
    [kind |-> "ReLU", wn |-> FALSE, g |-> 0, v |-> <<0, 0>>,
     weight |-> <<0, 0>>, window |-> 0, buffer |-> 0]

\* The weight a module computes with.
EffectiveWeight(m) == IF m.wn THEN Folded(m.g, m.v) ELSE m.weight

\* The history a convolution keeps: dilation * (kernel_size - 1) inputs.
Window(dilation, kernel) == dilation * (kernel - 1)

\* Lines 87-104: the dilations of the layers appended to conv_layers, flow by flow.
RECURSIVE Dilations(_, _)
Dilations(sizes, layers_per_stack) ==
    IF sizes = <<>> THEN <<>>
    ELSE [layer \in 1..Head(sizes) |-> Pow2((layer - 1) % layers_per_stack)]
         \o Dilations(Tail(sizes), layers_per_stack)

\* receptive_field_size(layers, stacks, kernel_size)
ReceptiveFieldSize(layers, stacks, kernel) ==
    (kernel - 1) * stacks * (Pow2(layers \div stacks) - 1) + 1

\* __init__ binds last_layers and last_layer; it never binds last_conv_layers,
\* the attribute incremental_forward and clear_buffer read.
UnboundAttr == [bound |-> FALSE, items |-> <<>>]

\* The instance __init__ leaves when no assertion fails.  mods holds first_conv
\* (index 0), conv_layers (1..n_conv) and last_layer (n_conv+1: ReLU,
\* n_conv+2: Conv1d1x1).  first_conv is built with Conv1d1x1's default, weight
\* normalization on.
Build(cfg) ==
    LET dil == Dilations(cfg.iaf_layer_size, cfg.layers \div cfg.stacks)
        n == Len(dil)
    IN [scalar_input |-> cfg.scalar_input,
        out_channels |-> OutChannels,
        n_flows |-> Len(cfg.iaf_layer_size),
        n_conv |-> n,
        mods |-> [i \in 0..(n + 2) |->
                    IF i = 0 THEN ConvModule("Conv1d1x1", TRUE, Window(1, 1))
                    ELSE IF i <= n
                      THEN ConvModule("ResidualConv1dGLU", cfg.weight_normalization,
                                      Window(dil[i], KernelSize))
                    ELSE IF i = n + 1 THEN ReLUModule
                    ELSE ConvModule("Conv1d1x1", cfg.weight_normalization, Window(1, 1))],
        last_layer |-> <<n + 1, n + 2>>,
        last_conv_layers |-> UnboundAttr,
        embed_speakers |-> IF cfg.gin_channels > 0 THEN "Embedding" ELSE None,
        receptive_field |-> ReceptiveFieldSize(cfg.layers, cfg.stacks, KernelSize)]

VARIABLES net, call, ret

vars == <<net, call, ret>>

NoNet == [made |-> FALSE]
Idle == [pc |-> "idle"]

Init ==
    /\ net = NoNet
    /\ call = Idle
    /\ ret = [op |-> "none", exc |-> None]

\* StudentWaveNet(...): an instance exists once __init__ returns.
Construct ==
    /\ net = NoNet
    /\ \E cfg \in Cfgs :
         /\ ret' = [op |-> "__init__", cfg |-> cfg, exc |-> CtorError(cfg)]
         /\ net' = IF CtorError(cfg) = None THEN Build(cfg) ELSE NoNet
    /\ UNCHANGED call

\* ------------------------------------------------------------ forward
\* Line 187: one flow step.
FlowStep(z, mu_f, scale_f) == z * scale_f + mu_f

\* Lines 178-187: z after the flow steps k..n.
RECURSIVE RunFlows(_, _, _, _)
RunFlows(z, m, s, k) ==
    IF k > Len(s) THEN z ELSE RunFlows(FlowStep(z, m[k], s[k]), m, s, k + 1)

RECURSIVE InnerProductFromI(_, _, _)
InnerProductFromI(s, j, ss) ==
    IF j - 1 > Len(s) THEN ss ELSE InnerProductFromI(s, j + 1, ss * s[j - 1])

\* Lines 189-191: ss after the inner loop over j, from j on.
RECURSIVE InnerProduct(_, _, _)
InnerProduct(s, j, ss) ==
    IF j > Len(s) THEN ss ELSE InnerProduct(s, j + 1, ss * s[j])

AddShiftUnscaled(mu_tot, m_i, ss) == mu_tot + m_i

\* Line 192.
AddShift(mu_tot, m_i, ss) == mu_tot + m_i * ss

\* Lines 188-193: (mu_tot, scale_tot) after the outer loop, from i on.
RECURSIVE Compose(_, _, _, _, _)
Compose(m, s, i, mu_tot, scale_tot) ==
    IF i > Len(s) THEN [mu_tot |-> mu_tot, scale_tot |-> scale_tot]
    ELSE Compose(m, s, i + 1,
                 AddShift(mu_tot, m[i], InnerProduct(s, i + 1, 1)),
                 scale_tot * s[i])

\* forward(x, c, g): every assignment of the method is to a local.
ForwardResult(n, g, z0, m, s) ==
    IF g # None /\ n.embed_speakers = None
    THEN [op |-> "forward", exc |-> "TypeError"]        \* line 158: None is called
    ELSE LET tot == Compose(m, s, 1, 0, 1)
         IN [op |-> "forward", exc |-> None, m |-> m, s |-> s, z0 |-> z0,
             z |-> RunFlows(z0, m, s, 1),
             mu_tot |-> tot.mu_tot, scale_tot |-> tot.scale_tot]

\* A layer's ordinary (batch) form reads its weights and keeps no history.
CallLayer(m) == m

ForwardNetIncremental(n) ==
    [n EXCEPT !.mods = [i \in DOMAIN n.mods |->
        [n.mods[i] EXCEPT !.buffer =
            IF n.mods[i].buffer + 1 < n.mods[i].window
            THEN n.mods[i].buffer + 1 ELSE n.mods[i].window]]]

\* Lines 178-183: forward applies the ordinary form of first_conv, of the flow's
\* layers and of last_layer.
ForwardNet(n) ==
    IF n.n_flows = 0 THEN n
    ELSE [n EXCEPT !.mods = [i \in DOMAIN n.mods |-> CallLayer(n.mods[i])]]

Forward ==
    /\ net # NoNet
    /\ call.pc = "idle"
    /\ \E g \in {None, "g"}, z0 \in Noise,
          m \in [1..net.n_flows -> Shifts], s \in [1..net.n_flows -> Scales] :
         /\ ret' = ForwardResult(net, g, z0, m, s)
         /\ net' = IF ret'.exc = None THEN ForwardNet(net) ELSE net
    /\ UNCHANGED call

\* ------------------------------------------------------- clear_buffer
\* Whether a module has clear_buffer and incremental_forward: nn.ReLU has neither.
HasIncremental(m) == m.kind # "ReLU"

ClearLayer(m) == [m EXCEPT !.buffer = 0]

\* A layer's incremental_forward keeps its input in its history.
PushLayer(m) ==
    [m EXCEPT !.buffer = IF m.buffer + 1 < m.window THEN m.buffer + 1 ELSE m.window]

\* Lines 328-332: the head layers, with the AttributeError of a layer without
\* clear_buffer caught.
ClearHead(mods, items) ==
    [i \in DOMAIN mods |->
       IF (\E k \in 1..Len(items) : items[k] = i) /\ HasIncremental(mods[i])
       THEN ClearLayer(mods[i]) ELSE mods[i]]

\* clear_buffer: lines 325-327 clear first_conv and conv_layers; line 328 reads
\* self.last_conv_layers, outside any try.
RunClearBuffer(n) ==
    LET body == [i \in DOMAIN n.mods |->
                   IF i <= n.n_conv THEN ClearLayer(n.mods[i]) ELSE n.mods[i]]
    IN IF ~n.last_conv_layers.bound
       THEN [net |-> [n EXCEPT !.mods = body], exc |-> "AttributeError"]
       ELSE [net |-> [n EXCEPT !.mods = ClearHead(body, n.last_conv_layers.items)],
             exc |-> None]

ClearBuffer ==
    /\ net # NoNet
    /\ call.pc = "idle"
    /\ net' = RunClearBuffer(net).net
    /\ ret' = [op |-> "clear_buffer", exc |-> RunClearBuffer(net).exc]
    /\ UNCHANGED call

\* ---------------------------------------------- make_generation_fast_
\* nn.utils.remove_weight_norm: folds g and v into the weight, or raises
\* ValueError on a module without weight norm.
TorchRemoveWeightNorm(m) ==
    IF m.wn
    THEN [mod |-> [m EXCEPT !.wn = FALSE, !.weight = Folded(m.g, m.v),
                            !.g = 0, !.v = <<0, 0>>],
          exc |-> None]
    ELSE [mod |-> m, exc |-> "ValueError"]

remove_weight_norm_uncaught(m) ==
    IF m.wn
    THEN [mod |-> [m EXCEPT !.wn = FALSE, !.weight = Folded(m.g, m.v),
                            !.g = 0, !.v = <<0, 0>>],
          exc |-> None]
    ELSE [mod |-> m, exc |-> "ValueError"]

\* Lines 335-339.
remove_weight_norm(m) ==
    LET r == TorchRemoveWeightNorm(m)
    IN IF r.exc = "ValueError" THEN [mod |-> m, exc |-> None] ELSE r

\* Line 341: apply visits the modules in order and stops at the first exception.
RECURSIVE Apply(_, _, _)
Apply(mods, i, last) ==
    IF i > last THEN [mods |-> mods, exc |-> None]
    ELSE LET r == remove_weight_norm(mods[i])
         IN IF r.exc # None THEN [mods |-> mods, exc |-> r.exc]
            ELSE Apply([mods EXCEPT ![i] = r.mod], i + 1, last)

MakeGenerationFast ==
    /\ net # NoNet
    /\ call.pc = "idle"
    /\ LET r == Apply(net.mods, 0, net.n_conv + 2)
       IN /\ net' = [net EXCEPT !.mods = r.mods]
          /\ ret' = [op |-> "make_generation_fast_", exc |-> r.exc,
                     nth |-> IF ret.op = "make_generation_fast_" THEN 2 ELSE 1]
    /\ UNCHANGED call

\* ------------------------------------------------ incremental_forward
Transpose(M) == [j \in 1..Len(M[1]) |-> [i \in 1..Len(M) |-> M[i][j]]]

\* The values one time step carries: a scalar, or a one-hot vector of out_channels.
Vals(scalar) == IF scalar THEN {<<0>>, <<1>>} ELSE {<<1, 0>>, <<0, 1>>}

\* The initial_input a caller passes, when it passes one.
GivenInitial(scalar) == IF scalar THEN <<1>> ELSE <<0, 1>>

\* Lines 227-233: test_inputs (none: <<>>, else <<a B x C x T matrix>>) brought
\* to the B x T x C layout.
ReshapeTestInputs(n, test_inputs) ==
    IF test_inputs = <<>> THEN <<>>
    ELSE LET M == test_inputs[1]
         IN IF n.scalar_input
            THEN (IF Len(M) = 1 THEN <<Transpose(M)>> ELSE <<M>>)
            ELSE (IF Len(M) = n.out_channels THEN <<Transpose(M)>> ELSE <<M>>)

\* Lines 235-241: the number of steps (T none: <<>>), 0 with the TypeError of int(None).
ResolveT(T, reshaped) ==
    IF reshaped # <<>>
    THEN (IF T = <<>> THEN [T |-> Len(reshaped[1]), exc |-> None]
          ELSE [T |-> Max(T[1], Len(reshaped[1])), exc |-> None])
    ELSE (IF T = <<>> THEN [T |-> 0, exc |-> "TypeError"]
          ELSE [T |-> T[1], exc |-> None])

\* Lines 265-276: the first input (none: <<>>, else <<a B x C x 1 matrix>>) as the
\* one row of a B x 1 x C matrix.
SilenceIndex == 127
InitialInput(n, initial_input) ==
    IF initial_input = <<>>
    THEN (IF n.scalar_input THEN [x |-> <<0>>, exc |-> None]
          ELSE IF SilenceIndex >= n.out_channels THEN [x |-> <<>>, exc |-> "IndexError"]
          ELSE [x |-> [k \in 1..n.out_channels |-> IF k = SilenceIndex + 1 THEN 1 ELSE 0],
                exc |-> None])
    ELSE LET M == initial_input[1]
         IN [x |-> IF Len(M) = n.out_channels THEN Transpose(M)[1] ELSE M[1],
             exc |-> None]

SelectInputNoFeedback(t, reshaped, outputs, current_input) ==
    IF reshaped # <<>> /\ t < Len(reshaped[1]) THEN reshaped[1][t + 1]
    ELSE current_input

\* Lines 280-284: the input of step t.
SelectInput(t, reshaped, outputs, current_input) ==
    IF reshaped # <<>> /\ t < Len(reshaped[1]) THEN reshaped[1][t + 1]
    ELSE IF t > 0 THEN outputs[Len(outputs)]
    ELSE current_input

\* A skip value is a polynomial in sqrt(0.5): <<c0, c1, ...>> is c0 + c1 r + ...
MulSqrtHalf(p) == <<0>> \o p
AddValue(p, h) == [p EXCEPT ![1] = p[1] + h]

AccumulateUnscaled(skips, h) ==
    IF skips = <<>> THEN <<(<<h>>)>> ELSE <<[skips[1] EXCEPT ![1] = skips[1][1] + h]>>

\* Line 295 (skips none: <<>>).
Accumulate(skips, h) ==
    IF skips = <<>> THEN <<(<<h>>)>> ELSE <<MulSqrtHalf(AddValue(skips[1], h))>>

\* The skip output of conv layer i on a step whose stimulus is hv.
SkipOutput(i, hv) == hv * i

\* Lines 292-295: skips and the trace of its values, layer by layer from i on.
RECURSIVE ConvLoop(_, _, _, _, _)
ConvLoop(i, n_conv, hv, skips, trace) ==
    IF i > n_conv THEN [skips |-> skips, trace |-> trace]
    ELSE LET nxt == Accumulate(skips, SkipOutput(i, hv))
         IN ConvLoop(i + 1, n_conv, hv, nxt, Append(trace, nxt[1]))

\* Line 292: the accumulator a time step starts from.
ResetSkips(previous) == <<>>

\* Lines 291-301: the layers' histories after one step.  Every layer of
\* conv_layers and every head layer with an incremental form keeps its input.
PushAll(n) ==
    [n EXCEPT !.mods = [i \in DOMAIN n.mods |->
        IF i <= n.n_conv THEN PushLayer(n.mods[i])
        ELSE IF (\E k \in 1..Len(n.last_conv_layers.items) :
                    n.last_conv_layers.items[k] = i)
          THEN (IF HasIncremental(n.mods[i]) THEN PushLayer(n.mods[i])
                ELSE CallLayer(n.mods[i]))
        ELSE n.mods[i]]]

\* ret while incremental_forward runs: the call has no outcome yet.
Running == [op |-> "incremental_forward", exc |-> "running"]

Failed(c, exc, clears) ==
    [op |-> "incremental_forward", exc |-> exc, clears |-> clears,
     T_req |-> c.T_req, ref_len |-> Len(c.ref), out_len |-> 0]

\* incremental_forward, lines 222-278: the entry clear_buffer, which ends the call
\* when it raises, and the set-up.
IncrementalForward ==
    /\ net # NoNet
    /\ call.pc = "idle"
    /\ LET cleared == RunClearBuffer(net)
       IN /\ net' = cleared.net
          /\ IF cleared.exc # None
             THEN /\ call' = Idle
                  /\ ret' = [op |-> "incremental_forward", exc |-> cleared.exc,
                             clears |-> 0]
             ELSE \E T \in {<<>>} \cup {<<k>> : k \in 1..MaxT},
                     ref \in SeqsUpTo(Vals(net.scalar_input), MaxRef),
                     init \in {<<>>, <<Transpose(<<GivenInitial(net.scalar_input)>>)>>},
                     g \in {None, "g"}, softmax \in BOOLEAN, quantize \in BOOLEAN :
                    LET test_inputs == IF ref = <<>> THEN <<>> ELSE <<Transpose(ref)>>
                        reshaped == ReshapeTestInputs(net, test_inputs)
                        steps == ResolveT(T, reshaped)
                        first == InitialInput(net, init)
                        c == [pc |-> "loop", T |-> steps.T, T_req |-> T,
                              ref |-> ref, test_inputs |-> reshaped,
                              initial_input |-> first.x,
                              t |-> 0, outputs |-> <<>>,
                              current_input |-> first.x, feeds |-> <<>>,
                              skips |-> <<>>, trace |-> <<>>, hv |-> 0,
                              softmax |-> softmax, quantize |-> quantize]
                        exc == IF steps.exc # None THEN steps.exc
                               ELSE IF g # None /\ net.embed_speakers = None
                                 THEN "TypeError"
                               ELSE first.exc
                    IN IF exc # None
                       THEN /\ call' = Idle
                            /\ ret' = Failed(c, exc, 1)
                       ELSE /\ call' = c
                            /\ ret' = Running

\* One pass of the loop of line 279.
Step ==
    /\ call.pc = "loop"
    /\ call.t < call.T
    /\ \E hv \in {1, 2}, sample \in Vals(net.scalar_input), bad_p \in BOOLEAN :
         LET x == SelectInput(call.t, call.test_inputs, call.outputs, call.current_input)
             conv == ConvLoop(1, net.n_conv, hv, ResetSkips(call.skips), <<>>)
             c == [call EXCEPT !.current_input = x, !.feeds = Append(@, x),
                               !.skips = conv.skips, !.trace = conv.trace,
                               !.hv = hv]
             \* lines 299-301: the first head layer, ReLU, is applied to None
             \* when conv_layers is empty
             exc == IF conv.skips = <<>> THEN "TypeError"
                    \* lines 310-311: np.random.choice refuses a p that does not sum to 1
                    ELSE IF ~net.scalar_input /\ call.quantize /\ ~call.softmax /\ bad_p
                      THEN "ValueError"
                    ELSE None
         IN /\ net' = IF conv.skips = <<>>
                      THEN [net EXCEPT !.mods[0] = PushLayer(@)]
                      ELSE PushAll(net)
            /\ IF exc # None
               THEN /\ call' = Idle
                    /\ ret' = Failed(c, exc, 1)
               ELSE /\ call' = [c EXCEPT !.outputs = Append(@, sample), !.t = @ + 1]
                    /\ UNCHANGED ret

\* Lines 316-322: the outputs stacked to B x C x T, the exit clear_buffer, the return.
Finish ==
    /\ call.pc = "loop"
    /\ call.t = call.T
    /\ LET cleared == RunClearBuffer(net)
       IN /\ net' = cleared.net
          /\ call' = Idle
          /\ ret' = IF cleared.exc # None THEN Failed(call, cleared.exc, 1)
                    ELSE [op |-> "incremental_forward", exc |-> None, clears |-> 2,
                          T_req |-> call.T_req, ref_len |-> Len(call.ref),
                          out_len |-> Len(Transpose(call.outputs)[1])]

\* ------------------------------------------------------ specifications
\* The program: every instance comes from __init__.
Next ==
    \/ Construct
    \/ Forward
    \/ ClearBuffer
    \/ MakeGenerationFast
    \/ IncrementalForward

Spec == Init /\ [][Next]_vars

\* The batch path alone, on instances of 0..MaxFlows flows.
FlowCfgs ==
    {cfg \in CfgSpace(SeqsUpTo({1}, MaxFlows), {TRUE}) :
        /\ cfg.layers = 1 /\ cfg.stacks = 1
        /\ cfg.gin_channels = -1 /\ cfg.n_speakers = 0
        /\ cfg.weight_normalization}

InitFlow ==
    /\ \E cfg \in FlowCfgs : net = Build(cfg)
    /\ call = Idle
    /\ ret = [op |-> "none", exc |-> None]

NextFlow == Forward

SpecFlow == InitFlow /\ [][NextFlow]_vars

\* The streaming path on an instance whose attribute last_conv_layers a caller
\* has bound to the head layers, last_layer.
BoundCfgs ==
    {cfg \in CfgSpace({<<>>, <<1>>, <<2>>, <<2, 1>>}, BOOLEAN) :
        /\ cfg.layers = 2 /\ cfg.stacks = 1
        /\ cfg.gin_channels = -1 /\ cfg.n_speakers = 0
        /\ cfg.weight_normalization}

Bind(n) == [n EXCEPT !.last_conv_layers = [bound |-> TRUE, items |-> n.last_layer]]

InitBound ==
    /\ \E cfg \in BoundCfgs : net = Bind(Build(cfg))
    /\ call = Idle
    /\ ret = [op |-> "none", exc |-> None]

NextBound ==
    \/ IncrementalForward
    \/ Step
    \/ Finish
    \/ ClearBuffer

SpecBound == InitBound /\ [][NextBound]_vars

\* ------------------------------------------------------------- claims
BuffersEmpty(n) == \A i \in DOMAIN n.mods : n.mods[i].buffer = 0

Ended(op) == ret.op = op /\ ret.exc # "running"

\* C1: on every exit path of incremental_forward, the streaming buffers are empty
\* before the first time step and after the call ends: clear_buffer has run to
\* completion at entry and at the exit.
C1_ClearedOnEveryExit ==
    /\ (call.pc = "loop" /\ call.t = 0) => BuffersEmpty(net)
    /\ Ended("incremental_forward") => (BuffersEmpty(net) /\ ret.clears = 2)

\* C2: incremental_forward returns a tensor whose time length is the requested T,
\* or the reference's length when T is None and a reference is given.
C2_OutputLength ==
    Ended("incremental_forward") =>
        /\ ret.exc = None
        /\ ret.out_len = (IF ret.T_req # <<>> THEN ret.T_req[1] ELSE ret.ref_len)

\* The product of s[lo..hi], taken from the right; 1 when the range is empty.
RECURSIVE ProductOf(_, _, _)
ProductOf(s, lo, hi) == IF lo > hi THEN 1 ELSE ProductOf(s, lo, hi - 1) * s[hi]

\* The sum over i in 1..n of m[i] times the product of s[j] for j > i.
RECURSIVE ShiftSum(_, _, _)
ShiftSum(m, s, n) ==
    IF n = 0 THEN 0 ELSE ShiftSum(m, s, n - 1) + m[n] * ProductOf(s, n + 1, Len(s))

\* C3: forward returns scale_tot, the product of all per-step scales, and mu_tot,
\* the sum over i of m[i] times the product of s[j] for j > i (0 and 1 for no step).
C3_ComposedTotals ==
    (ret.op = "forward" /\ ret.exc = None) =>
        /\ ret.scale_tot = ProductOf(ret.s, 1, Len(ret.s))
        /\ ret.mu_tot = ShiftSum(ret.m, ret.s, Len(ret.m))
        /\ (Len(ret.s) = 0 => (ret.mu_tot = 0 /\ ret.scale_tot = 1))

C3_Witness ==
    /\ ret.op = "forward" /\ ret.exc = None
    /\ Len(ret.s) = 3 /\ ret.s = <<1, 2, 2>> /\ ret.m = <<1, -1, 1>>
    /\ ret.mu_tot = 3 /\ ret.scale_tot = 4

\* C4: construction fails with an assertion, leaving no instance, whenever layers
\* is not divisible by stacks or gin_channels > 0 with n_speakers None; when it
\* succeeds, layers % stacks = 0 and the speaker embedding exists exactly when
\* gin_channels > 0.
C4_ConstructionContract ==
    ret.op = "__init__" =>
        /\ (\/ ret.cfg.layers % ret.cfg.stacks # 0
            \/ (ret.cfg.gin_channels > 0 /\ ret.cfg.n_speakers = 0))
              => (ret.exc = "AssertionError" /\ net = NoNet)
        /\ ret.exc = None =>
              /\ net # NoNet
              /\ ret.cfg.layers % ret.cfg.stacks = 0
              /\ (net.embed_speakers # None) <=> (ret.cfg.gin_channels > 0)

C4_Witness ==
    /\ ret.op = "__init__" /\ ret.exc = "AssertionError" /\ net = NoNet
    /\ ret.cfg.layers % ret.cfg.stacks = 0
    /\ ret.cfg.gin_channels > 0 /\ ret.cfg.n_speakers = 0

\* C5: make_generation_fast_ never raises and is idempotent: a call leaves no
\* module weight-normalized and no effective weight changed, and a call on a
\* network with nothing left to strip changes nothing.
C5_Idempotent ==
    [][ret'.op = "make_generation_fast_" =>
          /\ ret'.exc = None
          /\ \A i \in DOMAIN net.mods :
                /\ ~net'.mods[i].wn
                /\ EffectiveWeight(net'.mods[i]) = EffectiveWeight(net.mods[i])
          /\ (\A i \in DOMAIN net.mods : ~net.mods[i].wn) => net' = net]_vars

C5_Witness ==
    /\ ret.op = "make_generation_fast_" /\ ret.nth = 2 /\ ret.exc = None
    /\ net.n_conv > 0
    /\ \A i \in DOMAIN net.mods :
          ~net.mods[i].wn /\ (net.mods[i].kind # "ReLU" => net.mods[i].weight = <<6, 8>>)

C7_ForwardFrame ==
    [][ret'.op = "forward" => net' = net]_vars

C7_Witness ==
    /\ ret.op = "forward" /\ ret.exc = None
    /\ net.n_flows > 0 /\ net.n_conv > 1
    /\ ~net.mods[0].wn

C9_NoAttributeErrorEscapes ==
    (Ended("incremental_forward") \/ ret.op = "clear_buffer")
        => ret.exc # "AttributeError"

\* C10: the totals forward returns describe the flow itself: z after the n flow
\* steps is z0 * scale_tot + mu_tot.
C10_TotalsMatchFlow ==
    (ret.op = "forward" /\ ret.exc = None) =>
        ret.z = ret.z0 * ret.scale_tot + ret.mu_tot

C10_Witness ==
    /\ ret.op = "forward" /\ ret.exc = None
    /\ Len(ret.s) = 3 /\ ret.z0 = 2 /\ ret.s = <<2, 1, 2>> /\ ret.m = <<1, 1, -1>>
    /\ ret.z = 11

====
